---- MODULE Spec2Model ----
(***************************************************************************)
(* Model of MinimalParisWiFiExtractor (src/src/data_extractor.py): the     *)
(* transport client with retries, the offset cycle, the sample collector,  *)
(* the record normalizer, the batch loader and the pipeline orchestrator.  *)
(*                                                                         *)
(* The object is constructed (Init) and then one of its methods is called  *)
(* from pc = "idle"; connect_db and create_table return to "idle", every   *)
(* other call ends in "done" (returned) or "raised" (uncaught exception).  *)
(***************************************************************************)
EXTENDS Integers, Sequences, FiniteSets, TLC

\* ------------------------------------------------------------------------
\* Python / JSON values.  Every value is a record tagged by its type, so
\* that values of different Python types are never equal.  A dict is a TLA+
\* function from key strings to values; << >> is the empty dict.  Floats
\* are only passed through by the program, never computed with: they are
\* written in hundredths (48.85 is Num(4885)).
\* ------------------------------------------------------------------------
None == [t |-> "null"]
Str(s) == [t |-> "str", s |-> s]
Num(n) == [t |-> "num", n |-> n]
List(l) == [t |-> "list", l |-> l]
Map(m) == [t |-> "map", m |-> m]
Bool(b) == [t |-> "bool", b |-> b]
EmptyDict == << >>

\* Python truth value of an object (what `x or y` and `if x:` test).
Truthy(v) ==
    CASE v.t = "null" -> FALSE
      [] v.t = "str"  -> v.s # ""
      [] v.t = "num"  -> v.n # 0
      [] v.t = "list" -> Len(v.l) > 0
      [] v.t = "map"  -> DOMAIN v.m # {}
      [] v.t = "bool" -> v.b

\* Python `a or b`: a when a is truthy, else b.
PyOr(a, b) == IF Truthy(a) THEN a ELSE b

\* dict.get(k): the value under k, None when k is absent.
Get(m, k) == IF k \in DOMAIN m THEN m[k] ELSE None

\* isinstance(v, dict)
IsDict(v) == v.t = "map"

\* What a call produced when it did not return: the uncaught exception.
Raised(e) == [t |-> "raise", exc |-> e]

\* ------------------------------------------------------------------------
\* Record normalizer.
\* ------------------------------------------------------------------------

\* _get_fields_from_item: unwrap the record/fields envelope.
GetFieldsRecordFirst(item) ==
    IF ~IsDict(item) THEN Map(EmptyDict)
    ELSE IF "record" \in DOMAIN item.m /\ IsDict(item.m["record"])
         THEN item.m["record"]
    ELSE IF "fields" \in DOMAIN item.m THEN item.m["fields"]
    ELSE item

_get_fields_from_item(item) ==
    IF ~IsDict(item) THEN Map(EmptyDict)
    ELSE IF "record" \in DOMAIN item.m /\ IsDict(item.m["record"])
         THEN LET rec == item.m["record"]
              IN  IF "fields" \in DOMAIN rec.m THEN rec.m["fields"] ELSE rec
    ELSE IF "fields" \in DOMAIN item.m THEN item.m["fields"]
    ELSE item

\* The (lat, lon) pair computed at the head of prepare_record_for_db.
Coordinates(f) ==
    LET gp == PyOr(Get(f, "geo_point_2d"), Get(f, "geo_point"))
    IN  IF gp.t = "list" /\ Len(gp.l) >= 2
        THEN <<gp.l[1], gp.l[2]>>
        ELSE IF IsDict(gp)
        THEN <<PyOr(Get(gp.m, "lat"), Get(gp.m, "latitude")),
               PyOr(Get(gp.m, "lon"), Get(gp.m, "longitude"))>>
        ELSE <<PyOr(Get(f, "latitude"), Get(f, "lat")),
               PyOr(Get(f, "longitude"), Get(f, "lon"))>>

\* prepare_record_for_db: fields.get on anything but a dict is an
\* AttributeError, which nothing in the method catches.
prepare_record_for_db(fields) ==
    IF ~IsDict(fields) THEN Raised("AttributeError")
    ELSE LET f == fields.m
             ll == Coordinates(f)
         IN  [code_site |-> PyOr(PyOr(Get(f, "code_site"), Get(f, "codeSite")), Get(f, "code")),
              datetime |-> Get(f, "datetime"),
              duration |-> Get(f, "duration"),
              nom_site |-> PyOr(PyOr(Get(f, "nom_site"), Get(f, "nomSite")), Get(f, "nom")),
              cp |-> Get(f, "cp"),
              device_portal_format |-> Get(f, "device_portal_format"),
              bytesin |-> Get(f, "bytesin"),
              bytesout |-> Get(f, "bytesout"),
              latitude |-> ll[1],
              longitude |-> ll[2]]

\* Line 176: prepare_record_for_db(_get_fields_from_item(r)) for one r.
PrepareItem(r) == prepare_record_for_db(_get_fields_from_item(r))

IsRaised(v) == "t" \in DOMAIN v /\ v.t = "raise"

\* ------------------------------------------------------------------------
\* Raw items given to the normalizer.
\* ------------------------------------------------------------------------
AliasKeys == {"code_site", "codeSite", "code"}

\* The value a key carries when it carries a proper one: distinct per key,
\* so the key that supplied the result is recognisable.
AliasValue(k) ==
    CASE k = "code_site" -> Str("A1")
      [] k = "codeSite"  -> Str("B2")
      [] k = "code"      -> Str("C3")

\* Dicts over some of the alias keys, each present key holding its proper
\* value, None or the empty string.
AliasMaps ==
    UNION { { m \in [S -> {None, Str(""), Str("A1"), Str("B2"), Str("C3")}] :
                \A k \in S : m[k] \in {None, Str(""), AliasValue(k)} } : S \in SUBSET AliasKeys }

GeoMaps ==
    { [geo_point_2d |-> List(<<Num(4885), Num(235)>>)],
      [geo_point |-> List(<<Num(4885), Num(235)>>)],
      [geo_point_2d |-> None, geo_point |-> List(<<Num(4885), Num(235)>>)],
      [geo_point_2d |-> List(<<Num(4885)>>), latitude |-> Num(4890), longitude |-> Num(240)],
      [geo_point_2d |-> Map([lat |-> Num(4885), lon |-> Num(235)])],
      [geo_point_2d |-> Map([latitude |-> Num(4885), longitude |-> Num(235)])],
      [geo_point_2d |-> Map([x |-> Num(1)]), latitude |-> Num(4890), longitude |-> Num(240)],
      [geo_point_2d |-> Map(EmptyDict), lat |-> Num(4890), lon |-> Num(240)],
      [geo_point_2d |-> Str("48.85,2.35"), lat |-> Num(4890), lon |-> Num(240)],
      [latitude |-> Num(4885), longitude |-> Num(235)],
      [lat |-> Num(4890), lon |-> Num(240)],
      [latitude |-> Num(0), lat |-> Num(4890), longitude |-> None, lon |-> Num(240)] }

OtherMaps ==
    { [datetime |-> Str("2025-11-20T17:05:02"), duration |-> Num(60), nomSite |-> Str("Mairie"),
       cp |-> Str("75004"), device_portal_format |-> Str("Mobile"),
       bytesin |-> Num(1024), bytesout |-> Num(2048)],
      [code_site |-> Str("A1"), geo_point_2d |-> List(<<Num(4885), Num(235)>>)],
      [codeSite |-> Str("B2"), lat |-> Num(4890), lon |-> Num(240)],
      [nom_site |-> None, nomSite |-> Str(""), nom |-> Str("Gare")] }

FieldMaps == AliasMaps \cup GeoMaps \cup OtherMaps

\* What may sit under a "record" or "fields" key, or be handed over as an
\* item, besides a dict.
NonMaps == { None, Str("x"), Num(7), List(<<>>) }

FieldValues == { Map(f) : f \in FieldMaps } \cup NonMaps

RawItems ==
    FieldValues
    \cup { Map([fields |-> v]) : v \in FieldValues }
    \cup { Map([record |-> v]) : v \in FieldValues }
    \cup { Map([record |-> Map([fields |-> v])]) : v \in FieldValues }
    \cup { Map([record |-> Map([fields |-> v]), fields |-> Map([code |-> Str("C3")])]) : v \in FieldValues }
    \cup { Map([record |-> n, fields |-> v]) : n \in NonMaps, v \in FieldValues }
    \cup { Map([record |-> n] @@ f) : n \in NonMaps, f \in OtherMaps }

\* ------------------------------------------------------------------------
\* Bounds of the model and constants of the program.
\* ------------------------------------------------------------------------
MaxSmallBatch == 2      \* small page sizes 1..MaxSmallBatch, served in full
MaxPage == 2            \* most records the modelled server puts on one page
MaxTarget == 3          \* target sizes 0..MaxTarget for the small page sizes
MaxBatches == 3         \* page fetches of a run with a large page size
MaxRetriesArg == 4      \* max_retries 0..MaxRetriesArg in direct fetch calls
MaxRecords == 5         \* records handed to insert_records_batch directly
MaxBatchArg == 3        \* batch_size 1..MaxBatchArg in direct insert calls

max_offset == 10000             \* line 203
DefaultMaxRetries == 3          \* line 74, the default both callers use
PipelineBatchSize == 500        \* line 253

\* max_batch_size values given to the constructor: small ones, whose pages
\* the server can fill, and ones around the offset ceiling.
LargeBatches == {3000, 5000, 9999, 10000, 12000}
BatchSizes == (1..MaxSmallBatch) \cup LargeBatches

\* target_size values for a collector with page size B.
TargetSizes(B) ==
    IF B <= MaxSmallBatch THEN 0..MaxTarget
    ELSE {0} \cup {B * k : k \in 1..(MaxBatches - 1)} \cup {B * k + 1 : k \in 0..(MaxBatches - 1)}

\* ------------------------------------------------------------------------
\* The remote API.
\* ------------------------------------------------------------------------

\* The n-th record of the remote dataset (n from 1).
ServedItem(n) ==
    IF n % 2 = 1
    THEN Map([code_site |-> Str("A1"), duration |-> Num(n)])
    ELSE Map([record |-> Map([fields |-> Map([codeSite |-> Str("B2"), duration |-> Num(n)])])])

\* The page of k records the server returns for the given offset.
ServedPage(off, k) == [j \in 1..k |-> ServedItem(off + j)]

\* A record whose envelope the normalizer cannot open.
BrokenItem == Map([fields |-> None])

\* Bodies of a 2xx response carrying the page: under one of the known
\* keys, under two of them, under an unknown key, or as a bare list.
Payloads(page) ==
    { Map([results |-> List(page)]),
      Map([records |-> List(page)]),
      Map([data |-> List(page)]),
      Map([results |-> List(page), records |-> List(<<BrokenItem>>)]),
      Map([rows |-> List(page)]),
      List(page) }

\* The body holds its page under a key the client reads (lines 109-114).
CarriesPage(body) ==
    IsDict(body) /\ {"results", "records", "data"} \cap DOMAIN body.m # {}

\* _extract_results_list
_extract_results_list(raw_json) ==
    IF raw_json = None THEN <<>>
    ELSE IF IsDict(raw_json)
    THEN IF "results" \in DOMAIN raw_json.m THEN raw_json.m["results"].l
         ELSE IF "records" \in DOMAIN raw_json.m THEN raw_json.m["records"].l
         ELSE IF "data" \in DOMAIN raw_json.m THEN raw_json.m["data"].l
         ELSE <<>>
    ELSE <<>>

\* list(range(start, stop, step)) for step > 0
RangeFloor(start, stop, step) ==
    LET n == IF stop > start THEN (stop - start) \div step ELSE 0
    IN  [j \in 1..n |-> start + (j - 1) * step]

Range(start, stop, step) ==
    LET n == IF stop > start THEN (stop - start + step - 1) \div step ELSE 0
    IN  [j \in 1..n |-> start + (j - 1) * step]

\* Lines 203-206: the offset cycle of a collector with page size B.
BuildOffsetsInclusive(B) ==
    LET r == Range(0, max_offset + 1, B)
    IN  IF Len(r) = 0 THEN <<0>> ELSE r

BuildOffsets(B) ==
    LET r == Range(0, max_offset, B)
    IN  IF Len(r) = 0 THEN <<0>> ELSE r

\* seq[:n] for n >= 0
TakeAll(seq, n) == seq

Take(seq, n) == SubSeq(seq, 1, IF n < Len(seq) THEN n ELSE Len(seq))

\* seq[i:i+n], i counted from 0
Slice(seq, i, n) == SubSeq(seq, i + 1, IF i + n < Len(seq) THEN i + n ELSE Len(seq))

Min(a, b) == IF a < b THEN a ELSE b

\* The pages the server may return for a request: up to lim records of
\* the dataset from the offset on, or one record whose fields are null.
ServedPages(off, lim) ==
    { ServedPage(off, k) : k \in 0..Min(lim, MaxPage) } \cup { <<BrokenItem>> }

\* ------------------------------------------------------------------------
\* State.
\* ------------------------------------------------------------------------
VARIABLES
    max_batch_size,         \* self.max_batch_size
    conn,                   \* self.conn: "none" or "open"
    tableExists, table,     \* the sink: wifi_sessions and its committed rows
    txn,                    \* rows inserted by the connection's open transaction
    pc, op, ret, arg,       \* position, method called, its result, its argument
    limit, offset, max_retries, attempt, caller, fret,
                            \* frame of fetch_data_batch and its return value
    nreq, outcome, wait, okPayload,
                            \* requests sent by the current fetch_data_batch call,
                            \* how its latest attempt ended and the sleep that
                            \* followed, and the body of its 2xx response
    target_size, offsets, total_batches_needed, collected, oi, b,
                            \* frame of fetch_strategic_sample
    fetches,                \* the fetch_data_batch calls of the run, in order
    delivered,              \* the records the server sent on readable pages of the run, in order
    records, batch_size, prepared, i,
                            \* frame of insert_records_batch
    chunkLog,               \* per chunk: its start index, size, whether it committed, the count printed
    sink0,                  \* the sink when run_full_pipeline or insert_records_batch
                            \* was entered
    export_csv, items,      \* frame of run_full_pipeline
    steps, exported         \* steps run_full_pipeline has executed; CSV written

objVars == <<max_batch_size, conn, tableExists, table, txn>>
callVars == <<pc, op, ret, arg>>
fetchVars == <<limit, offset, max_retries, attempt, caller, fret, nreq, outcome, wait, okPayload>>
sampleVars == <<target_size, offsets, total_batches_needed, collected, oi, b, fetches,
                delivered>>
insertVars == <<records, batch_size, prepared, i, chunkLog, sink0>>
pipeVars == <<export_csv, items, steps, exported>>

vars == <<objVars, callVars, fetchVars, sampleVars, insertVars, pipeVars>>

\* A row left in the sink by an earlier run.
OldRow == prepare_record_for_db(Map([code_site |-> Str("OLD")]))

\* __init__: the object holds no connection; the sink is whatever earlier
\* runs left.
Init ==
    /\ max_batch_size \in BatchSizes
    /\ conn = "none"
    /\ tableExists \in BOOLEAN
    /\ table = IF tableExists THEN <<OldRow>> ELSE <<>>
    /\ txn = <<>>
    /\ pc = "idle" /\ op = "none" /\ ret = None /\ arg = None
    /\ limit = 0 /\ offset = 0 /\ max_retries = 0 /\ attempt = 0
    /\ caller = "none" /\ fret = None
    /\ nreq = 0 /\ outcome = "none" /\ wait = 0 /\ okPayload = None
    /\ target_size = 0 /\ offsets = <<>> /\ total_batches_needed = 0
    /\ collected = <<>> /\ oi = 0 /\ b = 0 /\ fetches = <<>> /\ delivered = <<>>
    /\ records = <<>> /\ batch_size = 0 /\ prepared = <<>> /\ i = 0
    /\ chunkLog = <<>>
    /\ sink0 = [exists |-> tableExists, rows |-> table]
    /\ export_csv = FALSE /\ items = <<>> /\ steps = <<>> /\ exported = FALSE

\* The object has just been constructed.  Calls that do not depend on the
\* sink are made on a fresh object only.
Fresh == op = "none"

\* ------------------------------------------------------------------------
\* The normalizer, called on one raw item as line 176 does per record.
\* ------------------------------------------------------------------------
Normalize ==
    /\ pc = "idle" /\ Fresh
    /\ \E r \in RawItems :
         /\ arg' = r
         /\ op' = "normalize"
         /\ LET p == PrepareItem(r)
            IN  /\ ret' = p
                /\ pc' = IF IsRaised(p) THEN "raised" ELSE "done"
    /\ UNCHANGED <<objVars, fetchVars, sampleVars, insertVars, pipeVars>>

\* ------------------------------------------------------------------------
\* fetch_data_batch (lines 74-102).
\* ------------------------------------------------------------------------

\* Lines 76-77.
ClampLimit(lim) == IF lim > max_batch_size THEN max_batch_size ELSE lim

\* Entering fetch_data_batch(lim, off, mr) on behalf of who.
FetchEnter(lim, off, mr, who) ==
    /\ limit' = ClampLimit(lim)
    /\ offset' = off
    /\ max_retries' = mr
    /\ attempt' = 1
    /\ caller' = who
    /\ fret' = None
    /\ nreq' = 0 /\ outcome' = "none" /\ wait' = 0 /\ okPayload' = None
    /\ pc' = "fetch_loop"

\* fetch_data_batch returns v to the place that called it.
FetchReturn(v) ==
    /\ fret' = v
    /\ pc' = CASE caller = "top"   -> "done"
               [] caller = "probe" -> "probe_ret"
               [] caller = "page"  -> "page_ret"
    /\ ret' = IF caller = "top" THEN v ELSE ret

\* The frame of a fetch_data_batch call whose result has been consumed.
FetchFrameDropped ==
    /\ limit' = 0 /\ offset' = 0 /\ max_retries' = 0 /\ attempt' = 0
    /\ caller' = "none" /\ fret' = None
    /\ nreq' = 0 /\ outcome' = "none" /\ wait' = 0 /\ okPayload' = None

\* A direct call of fetch_data_batch.
CallFetchDataBatch ==
    /\ pc = "idle" /\ Fresh
    /\ \E lim \in {1, max_batch_size, max_batch_size + 1},
          off \in {0, max_batch_size},
          mr \in 0..MaxRetriesArg :
         FetchEnter(lim, off, mr, "top")
    /\ op' = "fetch_data_batch"
    /\ UNCHANGED <<objVars, ret, arg, sampleVars, insertVars, pipeVars>>

\* One attempt answered 2xx: lines 83-91, the body is returned at once.
FetchOk ==
    /\ pc = "fetch_loop" /\ attempt <= max_retries
    /\ nreq' = nreq + 1
    /\ outcome' = "ok" /\ wait' = 0
    /\ \E page \in ServedPages(offset, limit) :
         \E body \in Payloads(page) :
            /\ okPayload' = body
            /\ FetchReturn(body)
            /\ delivered' = IF caller = "page" /\ CarriesPage(body)
                            THEN delivered \o page
                            ELSE delivered
    /\ UNCHANGED <<objVars, op, arg, limit, offset, max_retries, attempt, caller,
                   target_size, offsets, total_batches_needed, collected, oi, b, fetches,
                   insertVars, pipeVars>>

\* One attempt answered 429: lines 84-89, sleep 10 * attempt and go on.
FetchRateLimitedFirstFree ==
    /\ pc = "fetch_loop" /\ attempt <= max_retries
    /\ nreq' = nreq + 1
    /\ outcome' = "429" /\ wait' = 10 * attempt
    /\ attempt' = IF nreq = 0 THEN attempt ELSE attempt + 1
    /\ UNCHANGED <<objVars, callVars, limit, offset, max_retries, caller, fret,
                   okPayload, sampleVars, insertVars, pipeVars>>

FetchRateLimited ==
    /\ pc = "fetch_loop" /\ attempt <= max_retries
    /\ nreq' = nreq + 1
    /\ outcome' = "429" /\ wait' = 10 * attempt
    /\ attempt' = attempt + 1
    /\ UNCHANGED <<objVars, callVars, limit, offset, max_retries, caller, fret,
                   okPayload, sampleVars, insertVars, pipeVars>>

\* One attempt timed out: lines 92-95, sleep 2 * attempt and go on.
FetchTimeoutFlatWait ==
    /\ pc = "fetch_loop" /\ attempt <= max_retries
    /\ nreq' = nreq + 1
    /\ outcome' = "timeout" /\ wait' = 2
    /\ attempt' = attempt + 1
    /\ UNCHANGED <<objVars, callVars, limit, offset, max_retries, caller, fret,
                   okPayload, sampleVars, insertVars, pipeVars>>

FetchTimeout ==
    /\ pc = "fetch_loop" /\ attempt <= max_retries
    /\ nreq' = nreq + 1
    /\ outcome' = "timeout" /\ wait' = 2 * attempt
    /\ attempt' = attempt + 1
    /\ UNCHANGED <<objVars, callVars, limit, offset, max_retries, caller, fret,
                   okPayload, sampleVars, insertVars, pipeVars>>

\* One attempt failed otherwise (connection error, 4xx/5xx status raised
\* by raise_for_status, undecodable body): lines 96-101.
FetchError ==
    /\ pc = "fetch_loop" /\ attempt <= max_retries
    /\ nreq' = nreq + 1
    /\ outcome' = "error"
    /\ IF attempt < max_retries
       THEN /\ wait' = 2 * attempt
            /\ attempt' = attempt + 1
            /\ UNCHANGED <<pc, ret, fret>>
       ELSE /\ wait' = 0
            /\ FetchReturn(None)
            /\ UNCHANGED attempt
    /\ UNCHANGED <<objVars, op, arg, limit, offset, max_retries, caller,
                   okPayload, sampleVars, insertVars, pipeVars>>

\* The loop ran out of attempts: line 102.
FetchExhausted ==
    /\ pc = "fetch_loop" /\ attempt > max_retries
    /\ FetchReturn(None)
    /\ UNCHANGED <<objVars, op, arg, limit, offset, max_retries, attempt, caller,
                   nreq, outcome, wait, okPayload,
                   sampleVars, insertVars, pipeVars>>

\* ------------------------------------------------------------------------
\* fetch_strategic_sample (lines 190-231).
\* ------------------------------------------------------------------------

\* fetch_strategic_sample returns v to the place that called it.
SampleReturn(v) ==
    IF op = "run_full_pipeline"
    THEN /\ items' = v
         /\ pc' = "pipe_items"
         /\ UNCHANGED ret
    ELSE /\ ret' = List(v)
         /\ pc' = "done"
         /\ UNCHANGED items

\* Line 208: the number of page fetches planned for a target of T records
\* with pages of B.
BatchesNeededFloor(T, B) == T \div B

BatchesNeeded(T, B) == (T + B - 1) \div B

\* Lines 195-197: the probe is sent.
SampleEnter(T) ==
    /\ target_size' = T
    /\ offsets' = <<>> /\ total_batches_needed' = 0
    /\ collected' = <<>> /\ oi' = 0 /\ b' = 0
    /\ fetches' = <<[limit |-> 1, offset |-> 0]>>
    /\ delivered' = <<>>
    /\ FetchEnter(1, 0, DefaultMaxRetries, "probe")

\* A direct call of fetch_strategic_sample.
CallFetchStrategicSample ==
    /\ pc = "idle" /\ Fresh
    /\ \E T \in TargetSizes(max_batch_size) : SampleEnter(T)
    /\ op' = "fetch_strategic_sample"
    /\ UNCHANGED <<objVars, ret, arg, insertVars, pipeVars>>

\* Lines 198-200: the probe failed, the collection is given up.
ProbeFailedIgnored ==
    /\ pc = "probe_ret" /\ fret = None
    /\ offsets' = BuildOffsets(max_batch_size)
    /\ total_batches_needed' = BatchesNeeded(target_size, max_batch_size)
    /\ collected' = <<>>
    /\ oi' = 0
    /\ b' = 0
    /\ pc' = "page_loop"
    /\ UNCHANGED <<objVars, op, ret, arg, fetchVars, target_size, fetches, delivered,
                   insertVars, pipeVars>>

ProbeFailed ==
    /\ pc = "probe_ret" /\ fret = None
    /\ SampleReturn(<<>>)
    /\ UNCHANGED <<objVars, op, arg, fetchVars, sampleVars, insertVars,
                   export_csv, steps, exported>>

\* Lines 202-211: the probe answered, the loop is set up.
ProbeOk ==
    /\ pc = "probe_ret" /\ fret # None
    /\ offsets' = BuildOffsets(max_batch_size)
    /\ total_batches_needed' = BatchesNeeded(target_size, max_batch_size)
    /\ collected' = <<>>
    /\ oi' = 0
    /\ b' = 0
    /\ pc' = "page_loop"
    /\ FetchFrameDropped
    /\ UNCHANGED <<objVars, op, ret, arg, target_size, fetches, delivered,
                   insertVars, pipeVars>>

\* Line 216: the index into the offset cycle after one more page fetch.
NextOffsetIndexStuck(k, n) == k

NextOffsetIndex(k, n) == (k + 1) % n

\* Lines 213-216: the next offset of the cycle is fetched.
PageFetch ==
    /\ pc = "page_loop" /\ b < total_batches_needed
    /\ oi' = NextOffsetIndex(oi, Len(offsets))
    /\ fetches' = Append(fetches, [limit |-> max_batch_size, offset |-> offsets[oi + 1]])
    /\ FetchEnter(max_batch_size, offsets[oi + 1], DefaultMaxRetries, "page")
    /\ UNCHANGED <<objVars, op, ret, arg, target_size, offsets,
                   total_batches_needed, collected, b, delivered, insertVars, pipeVars>>

\* Line 219: collected.extend(items).
ExtendFront(coll, its) == its \o coll

Extend(coll, its) == coll \o its

\* Lines 218-222: the records of one page are added; an empty page adds
\* nothing.
AddPageDropsOnEmpty(coll, its) == IF Len(its) > 0 THEN Extend(coll, its) ELSE <<>>

AddPage(coll, its) == IF Len(its) > 0 THEN Extend(coll, its) ELSE coll

\* Lines 217-229: the page is added; the loop ends early once the target
\* is reached (lines 225-226, then 230-231).
PageDone ==
    /\ pc = "page_ret"
    /\ LET its == _extract_results_list(fret)
           coll == AddPage(collected, its)
       IN  /\ collected' = coll
           /\ IF Len(coll) >= target_size
              THEN /\ SampleReturn(Take(coll, target_size))
                   /\ UNCHANGED b
              ELSE /\ b' = b + 1
                   /\ pc' = "page_loop"
                   /\ UNCHANGED <<ret, items>>
    /\ FetchFrameDropped
    /\ UNCHANGED <<objVars, op, arg, target_size, offsets,
                   total_batches_needed, oi, fetches, delivered, insertVars,
                   export_csv, steps, exported>>

\* Lines 230-231: every batch has been fetched.
SampleEnd ==
    /\ pc = "page_loop" /\ b >= total_batches_needed
    /\ SampleReturn(Take(collected, target_size))
    /\ UNCHANGED <<objVars, op, arg, fetchVars, sampleVars, insertVars,
                   export_csv, steps, exported>>

\* ------------------------------------------------------------------------
\* connect_db (lines 35-42) and create_table (lines 44-72).
\* ------------------------------------------------------------------------
True == Bool(TRUE)
False == Bool(FALSE)

\* psycopg2.connect succeeded or raised; a failure leaves self.conn as it was.
ConnectEffect(ok) ==
    /\ conn' = IF ok THEN "open" ELSE conn
    /\ txn' = IF ok THEN <<>> ELSE txn
    /\ UNCHANGED <<max_batch_size, tableExists, table>>

\* The DROP/CREATE script ran and was committed, or an exception was caught
\* (without a connection, the AttributeError of self.conn.cursor()).
CreateEffect(ok) ==
    /\ ok => conn = "open"
    /\ tableExists' = IF ok THEN TRUE ELSE tableExists
    /\ table' = IF ok THEN <<>> ELSE table
    /\ UNCHANGED <<max_batch_size, conn, txn>>

\* A direct call of connect_db.
ConnectDb ==
    /\ pc = "idle"
    /\ \E ok \in BOOLEAN :
         /\ ConnectEffect(ok)
         /\ ret' = Bool(ok)
    /\ op' = "connect_db"
    /\ UNCHANGED <<pc, arg, fetchVars, sampleVars, insertVars, pipeVars>>

\* A direct call of create_table.
CreateTable ==
    /\ pc = "idle"
    /\ \E ok \in BOOLEAN :
         /\ CreateEffect(ok)
         /\ ret' = Bool(ok)
    /\ op' = "create_table"
    /\ UNCHANGED <<pc, arg, fetchVars, sampleVars, insertVars, pipeVars>>

\* ------------------------------------------------------------------------
\* insert_records_batch (lines 166-188).
\* ------------------------------------------------------------------------

\* conn.commit(): the rows of the open transaction become rows of the table.
Commit(tbl, tx) == tbl \o tx

\* conn.rollback(): the rows of the open transaction are discarded.
RollbackKeepsRows(tx) == tx

Rollback(tx) == <<>>

\* Number of rows in the chunks of the log that committed.
CommittedRows(log) ==
    LET Sum[n \in 0..Len(log)] ==
          IF n = 0 THEN 0
          ELSE Sum[n - 1] + (IF log[n].committed THEN log[n].size ELSE 0)
    IN  Sum[Len(log)]

\* The value insert_records_batch returns after the loop: the method ends
\* at line 188 without a return statement.
InsertResultCount(log) == Num(CommittedRows(log))

InsertResult(log) == None

\* insert_records_batch returns to the place that called it.
InsertReturn(v) ==
    IF op = "run_full_pipeline"
    THEN /\ pc' = "pipe_export"
         /\ UNCHANGED ret
    ELSE /\ pc' = "done"
         /\ ret' = v

\* Lines 168-177 of insert_records_batch(recs, bs): nothing to do for an
\* empty list; otherwise a cursor is opened and every record normalized,
\* outside any try block.
InsertEnter(recs, bs) ==
    /\ records' = recs
    /\ batch_size' = bs
    /\ i' = 0
    /\ chunkLog' = <<>>
    /\ sink0' = [exists |-> tableExists, rows |-> table]
    /\ IF Len(recs) = 0
       THEN /\ prepared' = <<>>
            /\ InsertReturn(None)
       ELSE IF conn # "open" \/ \E j \in 1..Len(recs) : IsRaised(PrepareItem(recs[j]))
       THEN /\ prepared' = <<>>
            /\ pc' = "raised"
            /\ ret' = Raised("AttributeError")
       ELSE /\ prepared' = [j \in 1..Len(recs) |-> PrepareItem(recs[j])]
            /\ pc' = "insert_loop"
            /\ UNCHANGED ret

\* Record lists handed to insert_records_batch directly: the first n
\* records of the dataset, possibly followed by a broken one.
InsertInputs ==
    { ServedPage(0, n) : n \in 0..MaxRecords }
    \cup { Append(ServedPage(0, n), BrokenItem) : n \in 0..1 }

\* A direct call of insert_records_batch.
CallInsertRecordsBatch ==
    /\ pc = "idle"
    /\ \E recs \in InsertInputs, bs \in 1..MaxBatchArg : InsertEnter(recs, bs)
    /\ op' = "insert_records_batch"
    /\ UNCHANGED <<objVars, arg, fetchVars, sampleVars, pipeVars>>

\* Line 183: the row count in the progress line "Inserted n/total rows"
\* printed after the chunk starting at index i0 committed.
ProgressReport(i0, size, total) == Min(i0 + size, total)

\* Lines 179-183: the chunk is inserted and committed.
InsertChunkCommitted ==
    /\ pc = "insert_loop" /\ i < Len(prepared)
    /\ tableExists
    /\ LET batch == Slice(prepared, i, batch_size)
       IN  /\ table' = Commit(table, txn \o batch)
           /\ txn' = <<>>
           /\ chunkLog' = Append(chunkLog, [start |-> i, size |-> Len(batch), committed |-> TRUE,
                                            reported |-> Num(ProgressReport(i, batch_size, Len(prepared)))])
    /\ i' = i + batch_size
    /\ UNCHANGED <<max_batch_size, conn, tableExists, callVars, fetchVars, sampleVars,
                   records, batch_size, prepared, sink0, pipeVars>>

\* Lines 179-186: executemany fails at some row of the chunk (or commit
\* fails after the last one); the transaction is rolled back.
InsertChunkRolledBack ==
    /\ pc = "insert_loop" /\ i < Len(prepared)
    /\ LET batch == Slice(prepared, i, batch_size)
       IN  /\ \E done \in 0..Len(batch) :
                /\ ~tableExists => done = 0
                /\ txn' = Rollback(txn \o SubSeq(batch, 1, done))
           /\ chunkLog' = Append(chunkLog, [start |-> i, size |-> Len(batch), committed |-> FALSE,
                                            reported |-> None])
    /\ i' = i + batch_size
    /\ UNCHANGED <<max_batch_size, conn, tableExists, table, callVars, fetchVars, sampleVars,
                   records, batch_size, prepared, sink0, pipeVars>>

\* Lines 187-188: the loop is over.
InsertEnd ==
    /\ pc = "insert_loop" /\ i >= Len(prepared)
    /\ InsertReturn(InsertResult(chunkLog))
    /\ UNCHANGED <<objVars, op, arg, fetchVars, sampleVars, insertVars, pipeVars>>

\* ------------------------------------------------------------------------
\* run_full_pipeline (lines 243-256).
\* ------------------------------------------------------------------------

\* A call of run_full_pipeline.
CallRunFullPipeline ==
    /\ pc = "idle" /\ Fresh
    /\ op' = "run_full_pipeline"
    /\ \E T \in TargetSizes(max_batch_size) : target_size' = T
    /\ export_csv' \in BOOLEAN
    /\ steps' = <<>>
    /\ pc' = "pipe_connect"
    /\ sink0' = [exists |-> tableExists, rows |-> table]
    /\ UNCHANGED <<objVars, ret, arg, fetchVars, offsets, total_batches_needed,
                   collected, oi, b, fetches, delivered, records, batch_size, prepared, i,
                   chunkLog, items, exported>>

\* Lines 244-245.
PipeConnect ==
    /\ pc = "pipe_connect"
    /\ \E ok \in BOOLEAN :
         /\ ConnectEffect(ok)
         /\ steps' = Append(steps, [step |-> "connect_db", ok |-> ok])
         /\ pc' = IF ok THEN "pipe_create" ELSE "done"
         /\ ret' = IF ok THEN ret ELSE False
    /\ UNCHANGED <<op, arg, fetchVars, sampleVars, insertVars, export_csv, items, exported>>

\* Lines 246-247.
PipeCreateIgnoresFailure ==
    /\ pc = "pipe_create"
    /\ \E ok \in BOOLEAN :
         /\ CreateEffect(ok)
         /\ steps' = Append(steps, [step |-> "create_table", ok |-> ok])
         /\ pc' = "pipe_collect"
         /\ ret' = ret
    /\ UNCHANGED <<op, arg, fetchVars, sampleVars, insertVars, export_csv, items, exported>>

PipeCreate ==
    /\ pc = "pipe_create"
    /\ \E ok \in BOOLEAN :
         /\ CreateEffect(ok)
         /\ steps' = Append(steps, [step |-> "create_table", ok |-> ok])
         /\ pc' = IF ok THEN "pipe_collect" ELSE "done"
         /\ ret' = IF ok THEN ret ELSE False
    /\ UNCHANGED <<op, arg, fetchVars, sampleVars, insertVars, export_csv, items, exported>>

\* Line 248: fetch_strategic_sample is called.
PipeCollect ==
    /\ pc = "pipe_collect"
    /\ SampleEnter(target_size)
    /\ steps' = Append(steps, [step |-> "fetch_strategic_sample", ok |-> TRUE])
    /\ UNCHANGED <<objVars, op, ret, arg, insertVars, export_csv, items, exported>>

\* Lines 249-253: nothing fetched ends the run, else the rows are loaded.
PipeItems ==
    /\ pc = "pipe_items"
    /\ IF Len(items) = 0
       THEN /\ steps' = [steps EXCEPT ![Len(steps)].ok = FALSE]
            /\ pc' = "done"
            /\ ret' = False
            /\ UNCHANGED insertVars
       ELSE /\ steps' = Append(steps, [step |-> "insert_records_batch", ok |-> TRUE])
            /\ InsertEnter(items, PipelineBatchSize)
    /\ UNCHANGED <<objVars, op, arg, fetchVars, sampleVars, export_csv, items, exported>>

\* Lines 254-256: the optional export (which may raise), then True.
PipeExport ==
    /\ pc = "pipe_export"
    /\ IF export_csv
       THEN \E ok \in BOOLEAN :
              /\ steps' = Append(steps, [step |-> "export_to_csv", ok |-> ok])
              /\ exported' = ok
              /\ pc' = IF ok THEN "done" ELSE "raised"
              /\ ret' = IF ok THEN True ELSE Raised("DatabaseError")
       ELSE /\ pc' = "done"
            /\ ret' = True
            /\ UNCHANGED <<steps, exported>>
    /\ UNCHANGED <<objVars, op, arg, fetchVars, sampleVars, insertVars, export_csv, items>>

Next ==
    \/ Normalize
    \/ CallFetchDataBatch \/ FetchOk \/ FetchRateLimited \/ FetchTimeout
    \/ FetchError \/ FetchExhausted
    \/ CallFetchStrategicSample \/ ProbeFailed \/ ProbeOk \/ PageFetch
    \/ PageDone \/ SampleEnd
    \/ ConnectDb \/ CreateTable
    \/ CallInsertRecordsBatch \/ InsertChunkCommitted \/ InsertChunkRolledBack
    \/ InsertEnd
    \/ CallRunFullPipeline \/ PipeConnect \/ PipeCreate \/ PipeCollect
    \/ PipeItems \/ PipeExport

Spec == Init /\ [][Next]_vars
\* ------------------------------------------------------------------------
\* Properties.
\* ------------------------------------------------------------------------
CeilDiv(a, d) == IF a % d = 0 THEN a \div d ELSE a \div d + 1

\* fetch_strategic_sample has returned (to the caller of the object or to
\* run_full_pipeline), and what it returned.
SampleReturned ==
    \/ op = "fetch_strategic_sample" /\ pc = "done"
    \/ op = "run_full_pipeline" /\ pc = "pipe_items"

SampleResult == IF op = "run_full_pipeline" THEN items ELSE ret.l

\* C1: whatever the pages were (full, short, empty, failed), the sequence
\* fetch_strategic_sample(target_size) returns has at most target_size
\* records.
C1_AtMostTarget ==
    SampleReturned => Len(SampleResult) <= target_size

\* C1 witness: the last page overshot the target and the result was cut to
\* exactly target_size records.
C1_Witness ==
    /\ SampleReturned
    /\ Len(collected) > target_size
    /\ target_size > 0
    /\ Len(SampleResult) = target_size

\* The probe call has returned without a 2xx response.
ProbeTerminallyFailed ==
    caller = "probe" /\ pc # "fetch_loop" /\ outcome # "ok"

\* C2: when the probe (limit=1, offset=0) fails after its retries, the
\* collector returns the empty sequence and the probe stays the only fetch
\* of the run.
C2_ProbeFailureAborts ==
    ProbeTerminallyFailed =>
        /\ fetches = <<[limit |-> 1, offset |-> 0]>>
        /\ limit = 1 /\ offset = 0
        /\ \/ pc = "probe_ret"
           \/ SampleReturned /\ SampleResult = <<>>
           \/ op = "run_full_pipeline" /\ pc = "done" /\ items = <<>>

\* C2 witness: the collector has returned after a probe whose three
\* attempts all failed, with a target that asked for records.
C2_Witness ==
    /\ ProbeTerminallyFailed
    /\ op = "fetch_strategic_sample" /\ pc = "done"
    /\ nreq = DefaultMaxRetries
    /\ target_size > 0

\* fetch_data_batch has returned and its frame is still in place.
FetchReturned ==
    /\ caller # "none"
    /\ pc # "fetch_loop"
    /\ pc \in {"done", "probe_ret", "page_ret"}

OffsetsBuilt == offsets # <<>>

\* Lines 202-211 have just run: the cycle is built, no page fetched yet.
OffsetsJustBuilt == pc = "page_loop" /\ b = 0 /\ Len(fetches) = 1

\* C7: for 0 < max_batch_size < 10000 the offset cycle the collector builds
\* is 0, B, 2B, ...: ceil(10000 / B) offsets, strictly increasing, all
\* below 10000.
C7_OffsetCycle ==
    (OffsetsJustBuilt /\ max_batch_size < max_offset) =>
        /\ Len(offsets) = CeilDiv(max_offset, max_batch_size)
        /\ \A j \in 1..Len(offsets) :
             /\ offsets[j] = (j - 1) * max_batch_size
             /\ offsets[j] >= 0 /\ offsets[j] < max_offset
             /\ j > 1 => offsets[j - 1] < offsets[j]

\* C7 witness: a cycle for a page size that does not divide the ceiling.
C7_Witness ==
    /\ OffsetsJustBuilt
    /\ max_batch_size = 3000
    /\ Len(offsets) = 4

\* C8: the cycle is never empty, its index stays inside it, and for
\* max_batch_size >= 10000 it is exactly [0].
C8_CycleNonEmpty ==
    OffsetsBuilt =>
        /\ Len(offsets) >= 1
        /\ oi \in 0..(Len(offsets) - 1)
        /\ max_batch_size >= max_offset => offsets = <<0>>

\* C8 witness: with a page size above the ceiling a third page has been
\* fetched from the one-element cycle.
C8_Witness ==
    /\ OffsetsBuilt
    /\ max_batch_size > max_offset
    /\ Len(fetches) = 4
    /\ pc = "page_ret"
\* The rows insert_records_batch has normalized, its chunks so far, and the
\* records those chunks cover.
InsertStarted == Len(prepared) > 0

Processed == Min(i, Len(prepared))

\* The chunk (counted from 1) that holds the p-th record (counted from 1).
ChunkOf(p) == (p - 1) \div batch_size + 1

\* The processed rows whose chunk committed, in input order.
KeptRows ==
    LET Keep[n \in 0..Processed] ==
          IF n = 0 THEN <<>>
          ELSE IF chunkLog[ChunkOf(n)].committed
               THEN Append(Keep[n - 1], prepared[n])
               ELSE Keep[n - 1]
    IN  Keep[Processed]

\* C3: insert_records_batch works through contiguous chunks of exactly
\* batch_size records (the last possibly smaller), one transaction each;
\* the rows of a failed chunk are never in the sink, the rows of every
\* other chunk all are, and what earlier chunks committed stays.
C3_ChunkIsolation ==
    InsertStarted =>
        /\ Len(chunkLog) = CeilDiv(Processed, batch_size)
        /\ \A k \in 1..Len(chunkLog) :
             /\ chunkLog[k].start = (k - 1) * batch_size
             /\ chunkLog[k].size =
                  IF k * batch_size <= Len(prepared)
                  THEN batch_size
                  ELSE Len(prepared) - (k - 1) * batch_size
        /\ table = sink0.rows \o KeptRows
        /\ txn = <<>>
        /\ pc # "insert_loop" => Processed = Len(prepared)

\* C3 witness: a direct call has finished whose first chunk committed,
\* whose second was rolled back and whose third, smaller one committed.
C3_Witness ==
    /\ op = "insert_records_batch" /\ pc = "done"
    /\ Len(chunkLog) = 3
    /\ chunkLog[1].committed /\ ~chunkLog[2].committed /\ chunkLog[3].committed
    /\ chunkLog[3].size < batch_size
    /\ Len(sink0.rows) > 0

\* insert_records_batch, called directly, has returned.
InsertReturned == op = "insert_records_batch" /\ pc = "done"

\* C4 as stated: insert_records_batch returns the number of rows in the
\* chunks that committed.
C4_ReturnsCommittedCount ==
    InsertReturned => ret = Num(CommittedRows(chunkLog))

\* C4 as amended: insert_records_batch returns no value (None), whatever
\* the input and whichever chunks fail; the committed rows are to be
\* counted in the sink.
C4_ReturnsNone ==
    InsertReturned =>
        /\ ret = None
        /\ Len(table) = Len(sink0.rows) + CommittedRows(chunkLog)

\* C4 witness: a direct call has returned after committing some chunks and
\* rolling back another.
C4_Witness ==
    /\ InsertReturned
    /\ CommittedRows(chunkLog) > 0
    /\ \E k \in 1..Len(chunkLog) : ~chunkLog[k].committed

CanonicalFields ==
    {"code_site", "datetime", "duration", "nom_site", "cp", "device_portal_format",
     "bytesin", "bytesout", "latitude", "longitude"}

\* C5: normalization is total: for every raw item that is a mapping,
\* _get_fields_from_item followed by prepare_record_for_db returns a
\* canonical record and never raises.
C5_NormalizeTotal ==
    (op = "normalize" /\ IsDict(arg)) =>
        /\ pc = "done"
        /\ ~IsRaised(ret)
        /\ DOMAIN ret = CanonicalFields

StepOrder ==
    <<"connect_db", "create_table", "fetch_strategic_sample",
      "insert_records_batch", "export_to_csv">>

\* C9: run_full_pipeline runs connect, schema, collect, load, export in
\* that order; a failed connect, schema creation or collection ends the
\* run with False and nothing later runs: no schema change after a failed
\* connect, no fetch after a failed schema creation, no insert or export
\* after a failed collection.
C9_PipelineOrder ==
    op = "run_full_pipeline" =>
        /\ Len(steps) <= Len(StepOrder)
        /\ \A k \in 1..Len(steps) : steps[k].step = StepOrder[k]
        /\ \A k \in 1..(Len(steps) - 1) : steps[k].ok
        /\ (Len(steps) < 2 \/ ~steps[2].ok) =>
              [exists |-> tableExists, rows |-> table] = sink0
        /\ Len(steps) < 3 => (fetches = <<>> /\ nreq = 0)
        /\ Len(steps) < 4 => (chunkLog = <<>> /\ prepared = <<>> /\ txn = <<>>)
        /\ (Len(steps) \in {2, 3} /\ steps[2].ok) => (tableExists /\ table = <<>>)
        /\ Len(steps) < 5 => ~exported
        /\ (Len(steps) \in 1..3 /\ ~steps[Len(steps)].ok) => (pc = "done" /\ ret = False)
        /\ (pc = "done" /\ ret = False) => (Len(steps) \in 1..3 /\ ~steps[Len(steps)].ok)

\* C9 witness: a run whose connect and schema steps succeeded and whose
\* collection, after page fetches, came back empty has ended with False.
C9_Witness ==
    /\ op = "run_full_pipeline" /\ pc = "done" /\ ret = False
    /\ Len(steps) = 3
    /\ Len(fetches) > 1

Example1 ==
    Map([record |-> Map([fields |-> Map([code_site |-> Str("A1"),
                                         geo_point_2d |-> List(<<Num(4885), Num(235)>>)])])])

Example2 == Map([codeSite |-> Str("B2"), lat |-> Num(4890), lon |-> Num(240)])

\* The mapping the envelope rule of the normalizer selects for an item.
EnvelopeSource(item) ==
    IF "record" \in DOMAIN item.m /\ IsDict(item.m["record"])
    THEN IF "fields" \in DOMAIN item.m["record"].m
         THEN item.m["record"].m["fields"]
         ELSE item.m["record"]
    ELSE IF "fields" \in DOMAIN item.m
         THEN item.m["fields"]
         ELSE item

\* C10: an item with a "record" mapping is normalized from record["fields"]
\* if present, else from the record mapping; otherwise from a top-level
\* "fields" mapping if present; otherwise from the item itself.  The two
\* documented examples give code_site "A1", latitude 48.85, longitude 2.35
\* and null elsewhere, and code_site "B2", latitude 48.9, longitude 2.4.
C10_EnvelopeAndExamples ==
    op = "normalize" =>
        /\ (IsDict(arg) /\ IsDict(EnvelopeSource(arg))) =>
              /\ pc = "done"
              /\ LET f == EnvelopeSource(arg).m
                 IN  /\ ret.datetime = Get(f, "datetime")
                     /\ ret.duration = Get(f, "duration")
                     /\ ret.cp = Get(f, "cp")
                     /\ "code_site" \in DOMAIN f /\ Truthy(f["code_site"]) =>
                            ret.code_site = f["code_site"]
                     /\ (DOMAIN f) \cap {"code_site", "codeSite", "code"} = {} =>
                            ret.code_site = None
        /\ arg = Example1 =>
              ret = [code_site |-> Str("A1"), datetime |-> None, duration |-> None,
                     nom_site |-> None, cp |-> None, device_portal_format |-> None,
                     bytesin |-> None, bytesout |-> None,
                     latitude |-> Num(4885), longitude |-> Num(235)]
        /\ arg = Example2 =>
              /\ ret.code_site = Str("B2")
              /\ ret.latitude = Num(4890)
              /\ ret.longitude = Num(240)

\* C10 witness: the enveloped example has been normalized.
C10_Witness ==
    /\ op = "normalize" /\ pc = "done"
    /\ arg = Example1
    /\ ret.code_site = Str("A1")
\* C11: the backoff is a function of the attempt number alone: after a 429
\* at attempt k (from 1) the sleep is exactly 10 * k seconds, after a
\* timeout at attempt k exactly 2 * k seconds, whatever the offset, the
\* limit and the earlier outcomes.
C11_BackoffByAttempt ==
    /\ outcome = "429" => wait = 10 * nreq
    /\ outcome = "timeout" => wait = 2 * nreq
    /\ outcome \in {"429", "timeout"} => (nreq >= 1 /\ nreq <= max_retries)

\* C11 witness: the third attempt of a page fetch at a non-zero offset
\* timed out and was followed by a sleep of 6 seconds.
C11_Witness ==
    /\ caller = "page" /\ offset > 0
    /\ outcome = "timeout" /\ nreq = 3 /\ wait = 6

\* The first value that is not None under the keys ks, taken in order;
\* None when there is none.
RECURSIVE FirstNonNull(_, _)
FirstNonNull(f, ks) ==
    IF ks = <<>> THEN None
    ELSE IF Get(f, Head(ks)) # None THEN Get(f, Head(ks))
    ELSE FirstNonNull(f, Tail(ks))

\* C12: aliased fields are resolved by the first non-null match in priority
\* order: code_site is the value of the first of code_site, codeSite, code
\* that is not None, nom_site the first of nom_site, nomSite, nom, so a
\* falsy value that is not None under an earlier key wins over a later key.
C12_FirstNonNullAlias ==
    (op = "normalize" /\ pc = "done") =>
        LET f == _get_fields_from_item(arg).m
        IN  /\ ret.code_site = FirstNonNull(f, <<"code_site", "codeSite", "code">>)
            /\ ret.nom_site = FirstNonNull(f, <<"nom_site", "nomSite", "nom">>)

\* A combined geo value that supplies coordinates: a list of at least two
\* entries, or a mapping with a lat/latitude and a lon/longitude key.
SuppliesCoordinates(g) ==
    \/ g.t = "list" /\ Len(g.l) >= 2
    \/ /\ IsDict(g)
       /\ {"lat", "latitude"} \cap DOMAIN g.m # {}
       /\ {"lon", "longitude"} \cap DOMAIN g.m # {}

\* The combined geo field of a field map: geo_point_2d, else geo_point.
CombinedGeo(f) ==
    IF SuppliesCoordinates(Get(f, "geo_point_2d")) THEN Get(f, "geo_point_2d")
    ELSE Get(f, "geo_point")

\* v is one of a and b, and is None only when both are.
OneOf(v, x, y) == v \in {x, y} /\ (v = None => (x = None /\ y = None))

\* C13: the coordinates come from the combined geo field when it supplies
\* them (a list of at least two entries read as lat, lon, or a mapping with
\* lat/latitude and lon/longitude), and from the discrete latitude/lat and
\* longitude/lon keys otherwise, in particular when the combined field is
\* a mapping without latitude/longitude keys.
C13_GeoFallback ==
    (op = "normalize" /\ pc = "done") =>
        LET f == _get_fields_from_item(arg).m
            g == CombinedGeo(f)
        IN  IF SuppliesCoordinates(g)
            THEN IF g.t = "list"
                 THEN ret.latitude = g.l[1] /\ ret.longitude = g.l[2]
                 ELSE /\ OneOf(ret.latitude, Get(g.m, "lat"), Get(g.m, "latitude"))
                      /\ OneOf(ret.longitude, Get(g.m, "lon"), Get(g.m, "longitude"))
            ELSE /\ OneOf(ret.latitude, Get(f, "latitude"), Get(f, "lat"))
                 /\ OneOf(ret.longitude, Get(f, "longitude"), Get(f, "lon"))

\* C14: after each chunk insert_records_batch reports the cumulative
\* committed-row progress: the row count reported after chunk k equals the
\* number of rows actually committed by the chunks up to and including k,
\* for every pattern of failing chunks.
C14_ReportedIsCommitted ==
    \A k \in 1..Len(chunkLog) :
        chunkLog[k].reported # None =>
            chunkLog[k].reported = Num(CommittedRows(SubSeq(chunkLog, 1, k)))

\* C15: every request of a collection run is a valid page request: its
\* limit is at most max_batch_size and its offset is at least 0 and below
\* the offset ceiling; the page fetch of batch index b uses the offset at
\* index b mod len(cycle) of the offset cycle.
C15_ValidPageRequests ==
    /\ (caller \in {"probe", "page"} /\ pc = "fetch_loop") =>
          /\ limit >= 1 /\ limit <= max_batch_size
          /\ offset >= 0 /\ offset < max_offset
          /\ limit = fetches[Len(fetches)].limit
          /\ offset = fetches[Len(fetches)].offset
    /\ caller = "page" => Len(fetches) = b + 2
    /\ \A n \in 2..Len(fetches) :
          /\ fetches[n].limit = max_batch_size
          /\ fetches[n].offset = offsets[((n - 2) % Len(offsets)) + 1]

\* C15 witness: with a cycle of two offsets the third page fetch is back
\* at offset 0 after a fetch at offset 5000.
C15_Witness ==
    /\ caller = "page" /\ pc = "fetch_loop"
    /\ Len(offsets) = 2
    /\ b = 2 /\ offset = 0
    /\ fetches[3].offset = 5000

\* C16: once the probe has succeeded, a page fetch that failed terminally
\* or returned no records is not fatal: it adds no record, leaves the
\* accumulated records as they were, and the collector goes on to the next
\* batch index and the next offset of the cycle; the run is not ended by it.
C16_PageFailureNonFatal ==
    [][(pc = "page_ret" /\ (fret = None \/ _extract_results_list(fret) = <<>>)) =>
          /\ collected' = collected
          /\ b' = b + 1
          /\ oi' = b' % Len(offsets')
          /\ pc' = "page_loop"]_vars

\* C16 witness: two page fetches are over, one of them added nothing, and
\* the collector stands at batch index 2 with the one record it had.
C16_Witness ==
    /\ pc = "page_loop" /\ b = 2
    /\ target_size = 3
    /\ Len(collected) = 1

\* x is the beginning of y.
IsPrefix(x, y) == Len(x) <= Len(y) /\ x = SubSeq(y, 1, Len(x))

\* x is y with some entries left out, the others in their order.
RECURSIVE IsSubseq(_, _)
IsSubseq(x, y) ==
    IF x = <<>> THEN TRUE
    ELSE IF y = <<>> THEN FALSE
    ELSE IF Head(x) = Head(y) THEN IsSubseq(Tail(x), Tail(y))
    ELSE IsSubseq(x, Tail(y))

\* The rows the present call of insert_records_batch has put in the sink.
RowsAdded == SubSeq(table, Len(sink0.rows) + 1, Len(table))

\* C17: order is preserved end to end: what fetch_strategic_sample returns
\* is a prefix of the records of the successful pages, concatenated in the
\* order the page fetches completed, and the rows the loader commits are in
\* the sink in the order of the input, a subsequence of the normalized
\* input, never reordered or duplicated.
C17_OrderPreserved ==
    /\ pc = "page_loop" => collected = delivered
    /\ pc = "page_ret" => IsPrefix(collected, delivered)
    /\ SampleReturned => IsPrefix(SampleResult, delivered)
    /\ InsertStarted =>
          /\ Len(table) >= Len(sink0.rows)
          /\ IsSubseq(RowsAdded, [j \in 1..Len(records) |-> PrepareItem(records[j])])
          /\ Len(RowsAdded) <= Len(records)

\* C17 witness: a pipeline run collected two full pages, cut them to three
\* records and committed the three rows.
C17_Witness ==
    /\ op = "run_full_pipeline" /\ pc = "done" /\ ret = True
    /\ Len(delivered) = 4 /\ Len(items) = 3
    /\ Len(RowsAdded) = 3

\* C18: every backoff sleep inside fetch_data_batch is followed by another
\* request attempt: after its last (max_retries-th) attempt the client does
\* not sleep, whether that attempt ended in a 429, a timeout or another
\* error.
C18_NoSleepAfterLastAttempt ==
    (caller # "none" /\ nreq = max_retries) => wait = 0

\* Every page fetch of the run so far delivered exactly max_batch_size
\* records.
AllPagesFull == Len(delivered) = max_batch_size * (Len(fetches) - 1)

\* C19: when the probe succeeds and every page fetch returns a full page of
\* max_batch_size records, fetch_strategic_sample returns exactly
\* target_size records for every target_size >= 1, after exactly
\* ceil(target_size / max_batch_size) page fetches; in every run there are
\* at most that many page fetches, and none is sent once the accumulated
\* count has reached target_size.
C19_FullPagesReachTarget ==
    /\ (SampleReturned /\ offsets # <<>> /\ target_size >= 1 /\ AllPagesFull) =>
          /\ Len(SampleResult) = target_size
          /\ Len(fetches) - 1 = CeilDiv(target_size, max_batch_size)
    /\ fetches # <<>> => Len(fetches) - 1 <= CeilDiv(target_size, max_batch_size)
    /\ (caller = "page" /\ pc = "fetch_loop") => Len(collected) < target_size

\* C19 witness: three records asked for with pages of two: two full pages
\* were fetched and three records returned.
C19_Witness ==
    /\ SampleReturned /\ offsets # <<>> /\ AllPagesFull
    /\ max_batch_size = 2 /\ target_size = 3
    /\ Len(fetches) = 3
    /\ Len(SampleResult) = 3

\* A run of run_full_pipeline is over, by a return or by an exception.
PipelineEnded == op = "run_full_pipeline" /\ pc \in {"done", "raised"}

\* Step k of the run was taken and succeeded.
StepOk(k) == Len(steps) >= k /\ steps[k].ok

\* C20: run_full_pipeline returns True exactly when the connection was
\* opened, the table was dropped and recreated and the collection returned
\* at least one record, however many insert chunks failed (all of them
\* included); and whenever it returns False after the schema step
\* succeeded, the sink table exists and holds no row.
C20_PipelineResult ==
    /\ PipelineEnded =>
          (ret = True <=> (StepOk(1) /\ StepOk(2) /\ Len(steps) >= 3 /\ Len(items) >= 1))
    /\ (PipelineEnded /\ ret = False /\ StepOk(2)) => (tableExists /\ table = <<>>)
====
